---- MODULE Spec2Model ----
(***************************************************************************)
(* MonitorTool sampler: the sampling loop of app/sampler_mongo.py (Mongo   *)
(* upstream) and app/sampler.py (SQL upstream), with the local SQLite      *)
(* store (samples, watermarks, new_rows, fits) they both write.            *)
(*                                                                         *)
(* Conventions of the model                                                *)
(*  - an optional value (Python None / SQL NULL / float NaN for "unknown   *)
(*    duration") is a sequence of length 0, a present value v is <<v>>;    *)
(*  - an upstream record maps every field name to an optional integer      *)
(*    (absent and null are both None; timestamps are in milliseconds); its *)
(*    identifier is its position in the upstream table, which is the       *)
(*    upstream store's native, insertion-ordered identifier;               *)
(*  - a timestamp stored as text instead of a datetime is <<v, "text">>:   *)
(*    present, not null, and not a value that can be subtracted;           *)
(*  - str(identifier) is the record [len, n]: the length of the text and   *)
(*    the identifier it denotes (24 characters for an ObjectId);           *)
(*  - a real number is a reduced fraction <<numerator, denominator>>.      *)
(***************************************************************************)
EXTENDS Integers, Sequences, FiniteSets, TLC

\* ---------------------------------------------------------------- bounds
\* most environment events of a run: records inserted upstream (all tables
\* together) plus table pipelines or start-up probes in which a step fails
\* (an upstream query, a conversion or a refit)
MaxEvents == 3
\* most completed ticks of the sampler loop
MaxTicks == 2
\* most process stops (SpecCrash only)
MaxRestarts == 1
\* stands for the LIMIT 10000 / .limit(10000) of a scan, scaled to MaxEvents
BatchLimit == 1

\* most rows archived in new_rows, all tables together (SpecFits)
MaxArchived == 3
\* most rows of the fits table, all tables together (SpecFits)
MaxFitRows == 4
\* most rows of the batch handed to record_sample (SpecSummary)
MaxBatch == 5
\* longest processing time of one tick, in time units (SpecTail)
MaxBusy == 4
\* most status updates inserted, latest time and most polls (SpecMirror)
MaxStatus == 3
MaxClock == 2
MaxPolls == 3

\* ------------------------------------------------------- option / helpers
None == <<>>
Some(v) == <<v>>
IsNone(o) == o = <<>>
Get(o) == o[1]

Range(s) == {s[k] : k \in 1..Len(s)}
Last(s) == s[Len(s)]
Min2(a, b) == IF a < b THEN a ELSE b

RECURSIVE SumSeq(_)
SumSeq(s) == IF s = <<>> THEN 0 ELSE s[1] + SumSeq(Tail(s))

RECURSIVE Gcd(_, _)
Gcd(a, b) == IF b = 0 THEN a ELSE Gcd(b, a % b)

Abs(a) == IF a < 0 THEN -a ELSE a

\* the reduced fraction n/d (d > 0)
Rat(n, d) ==
    LET g == Gcd(Abs(n), d)
    IN  IF n = 0 THEN <<0, 1>> ELSE <<n \div g, d \div g>>

\* ------------------------------------------------------------ configuration
\* the environment of the run: MT_TRACK_TABLES=files,chunks, and the defaults
\* of MT_STATUS_UPDATES_TABLE and MT_EXPORT_EVERY_N_SAMPLES
TRACK_TABLES == <<"files", "chunks">>
Tables == Range(TRACK_TABLES)
NTables == Len(TRACK_TABLES)
STATUS_TABLE == "statusUpdates"
EXPORT_EVERY_N_LOOPS == 2

\* ------------------------------------------------------------- identifiers
\* str(d["_id"]) / str(r['pk']): the text of identifier n of a table whose
\* identifiers are of the given kind
StrId(kind, n) == [len |-> IF kind = "oid" THEN 24 ELSE 1, n |-> n]
\* ObjectId(last_seen): the identifier a 24-character text denotes
ObjectId(s) == s.n

\* -------------------------------------------------------- analysis.py
\* summarize_durations: mean and the 50th / 95th percentile by linear
\* interpolation between closest ranks (pandas Series.quantile default)
Quantile(sorted, q100) ==
    LET n   == Len(sorted)
        pos == (n - 1) * q100
        lo  == pos \div 100
        fr  == pos % 100
    IN  IF fr = 0 THEN Rat(sorted[lo + 1], 1)
        ELSE Rat(100 * sorted[lo + 1] + fr * (sorted[lo + 2] - sorted[lo + 1]), 100)

\* a summary whose percentiles are the closest rank below, not interpolated
summarize_lower(durations_ms) ==
    IF durations_ms = <<>>
    THEN [count |-> 0, mean_ms |-> None, p50_ms |-> None, p95_ms |-> None]
    ELSE LET s == SortSeq(durations_ms, LAMBDA a, b : a < b)
         IN  [count   |-> Len(s),
              mean_ms |-> Some(Rat(SumSeq(s), Len(s))),
              p50_ms  |-> Some(Rat(s[((Len(s) - 1) * 50) \div 100 + 1], 1)),
              p95_ms  |-> Some(Rat(s[((Len(s) - 1) * 95) \div 100 + 1], 1))]

\* a summary that reports zeros instead of nulls for an empty series
summarize_zeros(durations_ms) ==
    [count   |-> Len(durations_ms),
     mean_ms |-> Some(Rat(SumSeq(durations_ms), Len(durations_ms) + 1)),
     p50_ms  |-> Some(<<0, 1>>),
     p95_ms  |-> Some(<<0, 1>>)]

summarize_durations(durations_ms) ==
    IF durations_ms = <<>>
    THEN [count |-> 0, mean_ms |-> None, p50_ms |-> None, p95_ms |-> None]
    ELSE LET s == SortSeq(durations_ms, LAMBDA a, b : a < b)
         IN  [count   |-> Len(s),
              mean_ms |-> Some(Rat(SumSeq(s), Len(s))),
              p50_ms  |-> Some(Quantile(s, 50)),
              p95_ms  |-> Some(Quantile(s, 95))]

\* a linear fit that accepts a single point
linear_fit_any(y) == IF Len(y) < 1 THEN None ELSE Some(Len(y))

\* linear_fit / exponential_fit: which fits exist and over how many points
linear_fit_n(y) == IF Len(y) < 2 THEN None ELSE Some(Len(y))

\* an exponential fit that reports all the points of the series as its n
exponential_fit_all(y) ==
    LET y2 == SelectSeq(y, LAMBDA v : v > 0)
    IN  IF Len(y2) < 2 THEN None ELSE Some(Len(y))

exponential_fit_n(y) ==
    LET y2 == SelectSeq(y, LAMBDA v : v > 0)
    IN  IF Len(y2) < 2 THEN None ELSE Some(Len(y2))

\* arithmetic on fractions
RAdd(a, b) == Rat(a[1] * b[2] + b[1] * a[2], a[2] * b[2])
RSub(a, b) == Rat(a[1] * b[2] - b[1] * a[2], a[2] * b[2])
RMul(a, b) == Rat(a[1] * b[1], a[2] * b[2])
RDiv(a, b) == IF b[1] < 0 THEN Rat(-(a[1] * b[2]), a[2] * (-b[1]))
              ELSE Rat(a[1] * b[2], a[2] * b[1])
RECURSIVE RSum(_)
RSum(s) == IF s = <<>> THEN <<0, 1>> ELSE RAdd(s[1], RSum(Tail(s)))

\* an r2 that takes a constant series for a perfect fit
r_squared_perfect(ss_res, ss_tot) ==
    IF ss_tot[1] > 0 THEN RSub(<<1, 1>>, RDiv(ss_res, ss_tot)) ELSE <<1, 1>>

\* r2 = 1.0 - (ss_res / ss_tot) if ss_tot > 0 else 0.0
r_squared(ss_res, ss_tot) ==
    IF ss_tot[1] > 0 THEN RSub(<<1, 1>>, RDiv(ss_res, ss_tot)) ELSE <<0, 1>>

\* the least-squares line through the points (x[i], y[i]) and its r2:
\* beta = lstsq([x, 1], y); y_pred = slope * x + intercept;
\* ss_res = sum((y - y_pred)^2); ss_tot = sum((y - mean(y))^2)
lstsq_fit(x, y) ==
    LET n   == Len(x)
        sx  == SumSeq(x)
        sy  == SumSeq(y)
        sxx == n * SumSeq([i \in 1..n |-> x[i] * x[i]]) - sx * sx
        sxy == n * SumSeq([i \in 1..n |-> x[i] * y[i]]) - sx * sy
        slope     == Rat(sxy, sxx)
        intercept == RDiv(RSub(<<sy, 1>>, RMul(slope, <<sx, 1>>)), <<n, 1>>)
        mean      == Rat(sy, n)
        res(i) == RSub(<<y[i], 1>>, RAdd(RMul(slope, <<x[i], 1>>), intercept))
        dev(i) == RSub(<<y[i], 1>>, mean)
        ss_res == RSum([i \in 1..n |-> RMul(res(i), res(i))])
        ss_tot == RSum([i \in 1..n |-> RMul(dev(i), dev(i))])
    IN  [slope |-> slope, intercept |-> intercept, r2 |-> r_squared(ss_res, ss_tot)]

\* np.log(y2) up to the change of scale ln v = ln 10 + LogY(v) * ln 2, which
\* leaves r2, the sign of the slope and the test ss_tot > 0 as they are; the
\* positive durations of the model are 10, 20, 40, ...
LogY(v) == CHOOSE k \in 0..8 : v = 10 * 2^k

\* linear_fit(x, y).r2 for x = 1..len(y)
linear_fit_r2(y) == lstsq_fit([i \in 1..Len(y) |-> i], y).r2

\* exponential_fit(x, y).r2: the fit of log(y) over the points with y > 0,
\* which keep their index in the whole series
exponential_fit_r2(y) ==
    LET x2 == SelectSeq([i \in 1..Len(y) |-> i], LAMBDA i : y[i] > 0)
    IN  lstsq_fit(x2, [j \in 1..Len(x2) |-> LogY(y[x2[j]])]).r2

\* -------------------------------------------------- sampler_mongo.py
Fields == {"processing_time_ms", "duration_ms", "processing_time", "duration",
           "start_time", "end_time", "queued_at", "created_at", "inserted_at"}

\* "f" in doc and doc["f"] is not None
Has(doc, f) == ~IsNone(doc[f])
Val(doc, f) == Get(doc[f])

\* a timestamp kept as text: the instant v written as a string
Text(v) == <<v, "text">>
\* (et - st).total_seconds() does not raise: both values are datetimes
Subtracts(a, b) == Len(a) = 1 /\ Len(b) = 1

\* _duration_from_doc: explicit ms -> seconds -> derived timestamps; a pair
\* whose subtraction raises is passed over (except Exception: pass)
duration_from_doc(doc) ==
    LET ca == IF Has(doc, "created_at") THEN doc["created_at"] ELSE doc["inserted_at"]
    IN  IF Has(doc, "processing_time_ms") THEN Some(Val(doc, "processing_time_ms"))
        ELSE IF Has(doc, "duration_ms") THEN Some(Val(doc, "duration_ms"))
        ELSE IF Has(doc, "processing_time") THEN Some(Val(doc, "processing_time") * 1000)
        ELSE IF Has(doc, "duration") THEN Some(Val(doc, "duration") * 1000)
        ELSE IF Has(doc, "start_time") /\ Has(doc, "end_time")
                /\ Subtracts(doc["end_time"], doc["start_time"])
             THEN Some(Val(doc, "end_time") - Val(doc, "start_time"))
        ELSE IF Has(doc, "queued_at") /\ ~IsNone(ca) /\ Subtracts(ca, doc["queued_at"])
             THEN Some(Get(ca) - Val(doc, "queued_at"))
        ELSE None

\* the identifiers a find / SELECT returns: those greater than `after`,
\* ascending, the first BatchLimit of them
ScanIds(n, after) ==
    LET lo == after + 1
        hi == Min2(n, after + BatchLimit)
    IN  [k \in 1..(IF hi >= lo THEN hi - lo + 1 ELSE 0) |-> lo + k - 1]

\* get_new_docs_with_durations(table, last_seen) over the collection `docs`
\* whose identifiers are of kind `kind`
get_new_docs_with_durations(docs, kind, last_seen) ==
    LET after == IF ~IsNone(last_seen) /\ Get(last_seen).len = 24
                 THEN ObjectId(Get(last_seen)) ELSE 0
        ids   == ScanIds(Len(docs), after)
    IN  [k \in 1..Len(ids) |-> <<StrId(kind, ids[k]), duration_from_doc(docs[ids[k]])>>]

\* ------------------------------------------------------------ sampler.py
First(cands, cols) ==
    LET hit == SelectSeq(cands, LAMBDA c : c \in Range(cols))
    IN  IF hit = <<>> THEN None ELSE Some(hit[1])

\* detect_keys_and_times over the inspector's answers
detect_keys_and_times(pk_cols, cols) ==
    [pk             |-> IF pk_cols # <<>> THEN pk_cols[1]
                        ELSE IF "id" \in Range(cols) THEN "id" ELSE cols[1],
     has_ms         |-> First(<<"processing_time_ms", "duration_ms">>, cols),
     has_secs       |-> First(<<"processing_time", "duration">>, cols),
     start_end      |-> "start_time" \in Range(cols) /\ "end_time" \in Range(cols),
     queued_created |-> "queued_at" \in Range(cols)
                        /\ ("created_at" \in Range(cols) \/ "inserted_at" \in Range(cols)),
     created_col    |-> First(<<"created_at", "inserted_at">>, cols)]

\* the rows of a SELECT (identifiers ids) whose duration expression dur is
\* not NULL, as (str(pk), float(duration)) pairs
RowsWithDuration(ids, dur) ==
    LET kept == SelectSeq(ids, LAMBDA k : ~IsNone(dur[k]))
    IN  [j \in 1..Len(kept) |-> <<StrId("int", kept[j]), dur[kept[j]]>>]

HasConvention(strat) ==
    \/ ~IsNone(strat.has_ms) \/ ~IsNone(strat.has_secs)
    \/ strat.start_end \/ strat.queued_created

\* get_new_rows_with_duration(engine, table, strat, last_seen_id) over the
\* table's rows
get_new_rows_with_duration(rows, strat, last_seen_id) ==
    LET where == ~IsNone(last_seen_id)
        after == IF where THEN Get(last_seen_id).n ELSE 0
        ids   == ScanIds(Len(rows), after)
    IN  IF ~IsNone(strat.has_ms)
        THEN RowsWithDuration(ids, [k \in 1..Len(rows) |-> rows[k][Get(strat.has_ms)]])
        ELSE IF ~IsNone(strat.has_secs)
        THEN RowsWithDuration(ids,
                 [k \in 1..Len(rows) |->
                     IF Has(rows[k], Get(strat.has_secs))
                     THEN Some(Val(rows[k], Get(strat.has_secs)) * 1000) ELSE None])
        ELSE IF strat.start_end
        THEN RowsWithDuration(ids,
                 [k \in 1..Len(rows) |->
                     IF Has(rows[k], "start_time") /\ Has(rows[k], "end_time")
                     THEN Some(Val(rows[k], "end_time") - Val(rows[k], "start_time"))
                     ELSE None])
        ELSE IF strat.queued_created
        THEN RowsWithDuration(ids,
                 [k \in 1..Len(rows) |->
                     IF Has(rows[k], Get(strat.created_col)) /\ Has(rows[k], "queued_at")
                     THEN Some(Val(rows[k], Get(strat.created_col)) - Val(rows[k], "queued_at"))
                     ELSE None])
        ELSE IF where
        THEN [k \in 1..Len(ids) |-> <<StrId("int", ids[k]), None>>]
        ELSE <<>>

\* -------------------------------------------------------- the local store
\* get_watermark: the stored last_seen_id of the table, or None
get_watermark(wms, t) == wms[t]

\* an upsert that keeps the stored row on conflict (ON CONFLICT DO NOTHING)
upsert_keep_first(wms, t, last_id) ==
    IF IsNone(wms[t]) THEN [wms EXCEPT ![t] = Some(last_id)] ELSE wms

\* an upsert whose UPDATE has no key: it overwrites the row of every table
upsert_all_rows(wms, t, last_id) == [u \in DOMAIN wms |-> Some(last_id)]

\* upsert_watermark: INSERT ... ON CONFLICT(table_name) DO UPDATE
upsert_watermark(wms, t, last_id) == [wms EXCEPT ![t] = Some(last_id)]

\* a Sample row that counts the rows with a known duration only
SampleRowKnown(total_count, rows) ==
    LET known     == SelectSeq(rows, LAMBDA r : ~IsNone(r[2]))
        durations == [k \in 1..Len(known) |-> Get(known[k][2])]
        stats     == summarize_durations(durations)
    IN  [total_count |-> total_count, new_rows |-> Len(known),
         mean_ms |-> stats.mean_ms, p50_ms |-> stats.p50_ms, p95_ms |-> stats.p95_ms]

\* the Sample row record_sample inserts
SampleRow(total_count, rows) ==
    LET known     == SelectSeq(rows, LAMBDA r : ~IsNone(r[2]))
        durations == [k \in 1..Len(known) |-> Get(known[k][2])]
        stats     == summarize_durations(durations)
    IN  [total_count |-> total_count, new_rows |-> Len(rows),
         mean_ms |-> stats.mean_ms, p50_ms |-> stats.p50_ms, p95_ms |-> stats.p95_ms]

\* the fit rows compute_and_store_fits inserts for the archived rows of a table
FitRows(archived) ==
    LET known == SelectSeq(archived, LAMBDA r : ~IsNone(r[2]))
        y     == [k \in 1..Len(known) |-> Get(known[k][2])]
        lin   == linear_fit_n(y)
        exp   == exponential_fit_n(y)
    IN  IF y = <<>> THEN <<>>
        ELSE (IF IsNone(lin) THEN <<>>
              ELSE <<[kind |-> "linear", n |-> Get(lin), r2 |-> linear_fit_r2(y)]>>)
             \o (IF IsNone(exp) THEN <<>>
                 ELSE <<[kind |-> "exponential", n |-> Get(exp),
                         r2 |-> exponential_fit_r2(y)]>>)

\* get_total_count: the count when the upstream answers; when it does not,
\* sampler_mongo.py returns 0 and sampler.py raises (None here)
get_total_count(v, rows, up) ==
    IF up THEN Some(Len(rows)) ELSE IF v = "mongo" THEN Some(0) ELSE None

\* the handler's  try: total = get_total_count(t)  except Exception: total = 0
FallbackTotal(v, rows, up) ==
    LET r == get_total_count(v, rows, up)
    IN  IF IsNone(r) THEN 0 ELSE Get(r)

\* a loop whose try has no handler for upstream errors: they end the thread
CatchNoUpstream(v, exc) == IF exc = "upstream" THEN "dead" ELSE "pass"

\* a loop that passes over every exception (except Exception: pass)
CatchSwallow(v, exc) == "pass"

\* which handler of Sampler.run takes an exception raised in the try body:
\* "upstream" is an error of the upstream driver (pymongo error,
\* SQLAlchemyError), "other" any other Exception
Catch(v, exc) ==
    IF v = "mongo" THEN "except"
    ELSE IF exc = "upstream" THEN "except" ELSE "pass"

\* ------------------------------------------------------------------ state
VARIABLES
    variant,     \* "mongo": sampler_mongo.py, "pg": sampler.py
    idKind,      \* per table: the kind of its identifiers
    columns,     \* per table: its columns (sampler.py)
    upstream,    \* per table: its records, in identifier order
    samples,     \* SQLite samples, per table, in insertion order
    watermarks,  \* SQLite watermarks: per table its last_seen_id, or None
    new_rows,    \* SQLite new_rows, per table, in ROWID order
    fits,        \* SQLite fits, per table, in insertion order
    strategies,  \* sampler.py: the probed profile per table, or None
    pc,          \* the position of the sampler thread
    ti,          \* index in TRACK_TABLES of the table being processed
    batch,       \* the local new_rows of Sampler.run
    loops,       \* sampler_mongo.py: loops
    exports,     \* number of export runs so far
    ticks,       \* number of completed ticks
    restarts,    \* number of process stops so far
    faults,      \* number of pipelines and probes with a failed step so far
    maxPassed,   \* per table: greatest identifier passed to upsert_watermark (0: none)
    visits,      \* per table: number of times its pipeline has been entered
    polls,       \* number of status polls so far
    hist,        \* what happened in the pipeline of the table processed last
    view,        \* what the reader of the latest fits that ran last returned
    dk,          \* the latest fits per kind handed to the classifier
    label,       \* the classification written in the report, or None
    started,     \* the times at which the ticks so far started
    took,        \* the processing time of each tick whose tables are done
    every,       \* the export frequency the process was started with
    exported,    \* the ticks that ended with an export run, and the last run
    statusdb,    \* app.py: the status-update collection, its mirror, the clock
    state        \* app.py: state["last_status_ts"], state["last_status_id"]

vars == <<variant, idKind, columns, upstream, samples, watermarks, new_rows, fits,
          strategies, pc, ti, batch, loops, exports, ticks, restarts,
          faults, maxPassed, visits, polls, hist, view, dk, label,
          started, took, every, exported, statusdb, state>>

config  == <<variant, idKind, columns>>
store   == <<samples, watermarks, new_rows, fits>>
tail    == <<started, took, every, exported>>
mirror  == <<statusdb, state>>
report  == <<view, dk, label, tail, mirror>>

T == TRACK_TABLES[ti]

\* the duration values and schemas the upstream is populated from
DurVals == {10}
Schemas == {<<"id", "processing_time_ms">>, <<"id">>}
PkCols == <<"id">>

NoFields == [f \in Fields |-> None]
\* the records a table with the given columns can hold
DocsOver(cols) ==
    {NoFields} \cup
    {[NoFields EXCEPT ![f] = Some(d)] : f \in Range(cols) \cap Fields, d \in DurVals}

\* the watermark as an identifier (0: none)
WmN(o) == IF IsNone(o) THEN 0 ELSE Get(o).n

\* nothing observed yet: no table has been processed in this tick
FreshHist ==
    [t        |-> "",
     done     |-> FALSE,
     scanRes  |-> "none",
     countRes |-> "none",
     fbRes    |-> "none",
     refitRes |-> "none",
     wmRead   |-> 0,
     upLen    |-> 0,
     got      |-> <<>>,
     wrote    |-> FALSE,
     asked    |-> FALSE,
     sBase    |-> 0,
     rBase    |-> 0,
     outage   |-> FALSE,
     polled   |-> FALSE]

\* an empty SQLite file but for the watermarks wms, and a sampler thread at
\* position p whose local new_rows is rows
ProcessAt(p, rows, wms) ==
    /\ samples = [t \in Tables |-> <<>>]
    /\ watermarks = wms
    /\ new_rows = [t \in Tables |-> <<>>]
    /\ fits = [t \in Tables |-> <<>>]
    /\ strategies = [t \in Tables |-> None]
    /\ pc = p
    /\ ti = 1
    /\ batch = rows
    /\ loops = 0
    /\ exports = 0
    /\ ticks = 0
    /\ restarts = 0
    /\ faults = 0
    /\ maxPassed = [t \in Tables |-> 0]
    /\ visits = [t \in Tables |-> 0]
    /\ polls = 0
    /\ hist = FreshHist

\* an empty SQLite file and a process that has not started its sampler thread
FreshProcess == ProcessAt("boot", <<>>, [t \in Tables |-> None])

SamplerInit ==
    /\ variant \in {"mongo", "pg"}
    /\ idKind \in [Tables -> {"oid", "other"}]
    /\ columns \in [Tables -> Schemas]
    /\ \A t, u \in Tables : idKind[t] = idKind[u] /\ columns[t] = columns[u]
    /\ variant = "mongo" => \A t \in Tables : columns[t] = <<"id", "processing_time_ms">>
    /\ variant = "pg" => \A t \in Tables : idKind[t] = "other"
    /\ upstream = [t \in Tables |-> <<>>]
    /\ FreshProcess

\* no reader has run, nothing has been classified
NoView == [reader |-> "none", table |-> "", rows |-> <<>>]
NoFits == [linear |-> None, exponential |-> None]

\* no export run yet
NoExport == [at |-> {}, failed |-> {}, written |-> {}]
\* app.py after start: an empty status collection and mirror at time 0, no
\* poll yet; state = {"last_status_ts": None, "last_status_id": None, ...}
NoMirror ==
    /\ statusdb = [updates |-> <<>>, mirror |-> <<>>, now |-> 0, polls |-> 0, seen |-> 0]
    /\ state = [last_status_ts |-> None, last_status_id |-> None]

\* the first tick starts at time 0, with the default export frequency
NoTail ==
    /\ started = <<0>>
    /\ took = <<>>
    /\ every = EXPORT_EVERY_N_LOOPS
    /\ exported = NoExport

Init ==
    /\ SamplerInit
    /\ view = NoView
    /\ dk = NoFits
    /\ label = None
    /\ NoTail
    /\ NoMirror

\* ---------------------------------------------------------------- upstream
\* the environment events so far
Events == SumSeq([k \in 1..NTables |-> Len(upstream[TRACK_TABLES[k]])]) + faults

\* the pipeline under observation appends a record to a tracked table.  The
\* sampler sees an insertion only at its next scan of that table, so the
\* insertion is taken right before that scan.
Insert ==
    /\ pc = "scan"
    /\ Events < MaxEvents
    /\ \E doc \in DocsOver(columns[T]) :
          upstream' = [upstream EXCEPT ![T] = Append(@, doc)]
    /\ UNCHANGED <<report, config, store, strategies, pc, ti, batch, loops, exports,
                   ticks, restarts, faults, maxPassed, visits, polls, hist>>

\* a step of T's pipeline has already failed
Faulty ==
    /\ pc \in {"count", "refit", "except"}
    /\ "fail" \in {hist.scanRes, hist.countRes, hist.refitRes}

\* a step that fails draws on the failure budget of the run, once per pipeline
Fault(failed) ==
    IF failed /\ ~Faulty THEN Events < MaxEvents /\ faults' = faults + 1
    ELSE faults' = faults

\* ------------------------------------------------------------- Sampler.run
\* main.py: _sampler.start()
Start ==
    /\ pc = "boot"
    /\ pc' = IF variant = "pg" THEN "probe" ELSE "scan"
    /\ ti' = 1
    /\ UNCHANGED <<report, config, upstream, store, strategies, batch, loops, exports,
                   ticks, restarts, faults, maxPassed, visits, polls, hist>>

\* sampler.py: the probe of every table before the loop
Probe ==
    /\ pc = "probe"
    /\ \E ok \in BOOLEAN :
          /\ Fault(~ok)
          /\ strategies' = [strategies EXCEPT ![T] =
                IF ok THEN Some(detect_keys_and_times(PkCols, columns[T])) ELSE None]
    /\ IF ti < NTables THEN pc' = pc /\ ti' = ti + 1 ELSE pc' = "scan" /\ ti' = 1
    /\ UNCHANGED <<report, config, upstream, store, batch, loops, exports,
                   ticks, restarts, maxPassed, visits, polls, hist>>

\* the end of a table's pipeline: on to the next table, or to the status poll
GoNext ==
    /\ IF ti < NTables THEN pc' = "scan" /\ ti' = ti + 1 ELSE pc' = "status" /\ ti' = ti
    /\ batch' = <<>>

\* an exception raised inside the try body of table T
Raise(exc) ==
    LET h == Catch(variant, exc)
    IN  IF h = "pass" THEN GoNext
        ELSE /\ pc' = (IF h = "except" THEN "except" ELSE "dead")
             /\ UNCHANGED <<ti, batch>>

\* the profile the loop uses for T once the probe has answered
Strat == IF IsNone(strategies[T]) THEN detect_keys_and_times(PkCols, columns[T])
         ELSE Get(strategies[T])

\* the result of SCAN_NEW on T when the upstream answers
Scanned ==
    IF variant = "mongo"
    THEN get_new_docs_with_durations(upstream[T], idKind[T], get_watermark(watermarks, T))
    ELSE get_new_rows_with_duration(upstream[T], Strat, get_watermark(watermarks, T))

\* whether SCAN_NEW on T sends anything to the upstream store
ScanAsksUpstream ==
    IF variant = "mongo" \/ IsNone(strategies[T]) THEN TRUE
    ELSE HasConvention(Get(strategies[T])) \/ ~IsNone(get_watermark(watermarks, T))

\* every upstream query sent for the table in this pipeline failed
UnreachableIn(h) ==
    /\ h.asked => h.scanRes = "fail"
    /\ h.countRes # "ok"
    /\ h.fbRes # "ok"
    /\ "fail" \in {h.scanRes, h.countRes, h.fbRes}

\* the pipeline of the table ends
EndPipe(h) == [h EXCEPT !.done = TRUE, !.outage = h.outage \/ UnreachableIn(h)]

\* an exception that the loop passes over ends the pipeline
AfterRaise(h, exc) == IF Catch(variant, exc) = "pass" THEN EndPipe(h) ELSE h

SeeScan(res, rows) ==
    [FreshHist EXCEPT !.t = T, !.scanRes = res,
                      !.wmRead = WmN(get_watermark(watermarks, T)),
                      !.upLen = Len(upstream[T]), !.got = rows,
                      !.wrote = (rows # <<>>), !.asked = ScanAsksUpstream,
                      !.sBase = Len(samples[T]), !.rBase = Len(new_rows[T]),
                      !.outage = hist.outage]

\* last_id = get_watermark(t); new_rows = SCAN_NEW(t, last_id);
\* if new_rows: upsert_watermark(t, new_rows[-1][0])
ScanOk ==
    /\ pc = "scan"
    /\ batch' = Scanned
    /\ IF Scanned # <<>>
       THEN /\ watermarks' = upsert_watermark(watermarks, T, Last(Scanned)[1])
            /\ maxPassed' = [maxPassed EXCEPT ![T] =
                                IF Last(Scanned)[1].n > @ THEN Last(Scanned)[1].n ELSE @]
       ELSE UNCHANGED <<watermarks, maxPassed>>
    /\ pc' = "count"
    /\ hist' = SeeScan("ok", Scanned)
    /\ visits' = [visits EXCEPT ![T] = @ + 1]
    /\ UNCHANGED <<report, config, upstream, samples, new_rows, fits, strategies, ti, loops,
                   exports, ticks, restarts, faults, polls>>

\* the probe or the query of SCAN_NEW raises an upstream error
ScanFail ==
    /\ pc = "scan"
    /\ ScanAsksUpstream
    /\ Fault(TRUE)
    /\ visits' = [visits EXCEPT ![T] = @ + 1]
    /\ Raise("upstream")
    /\ hist' = AfterRaise(SeeScan("fail", <<>>), "upstream")
    /\ UNCHANGED <<report, config, upstream, store, strategies, loops, exports,
                   ticks, restarts, maxPassed, polls>>

\* float(...) of a fetched duration raises (a value that is not a number)
ScanConvert ==
    /\ pc = "scan"
    /\ \E k \in 1..Len(Scanned) : ~IsNone(Scanned[k][2])
    /\ Fault(TRUE)
    /\ visits' = [visits EXCEPT ![T] = @ + 1]
    /\ Raise("other")
    /\ hist' = AfterRaise(SeeScan("convert", <<>>), "other")
    /\ UNCHANGED <<report, config, upstream, store, strategies, loops, exports,
                   ticks, restarts, maxPassed, polls>>

\* a recorder that keeps one Sample row per table: the latest replaces the
\* one before
record_sample_latest(smp, t, total_count, rows) ==
    [smp EXCEPT ![t] = <<SampleRow(total_count, rows)>>]

\* record_sample(t, total_count, rows): one Sample row and the archived rows,
\* in one commit
record_sample(smp, t, total_count, rows) ==
    [smp EXCEPT ![t] = Append(@, SampleRow(total_count, rows))]

\* total = get_total_count(t); record_sample(t, total, new_rows)
CountRecord ==
    /\ pc = "count"
    /\ \E up \in BOOLEAN :
          LET r == get_total_count(variant, upstream[T], up)
          IN  /\ Fault(~up)
              /\ hist' = LET h == [hist EXCEPT !.countRes = IF up THEN "ok" ELSE "fail"]
                          IN  IF IsNone(r) THEN AfterRaise(h, "upstream") ELSE h
              /\ IF IsNone(r)
                 THEN Raise("upstream") /\ UNCHANGED <<samples, new_rows>>
                 ELSE /\ samples' = record_sample(samples, T, Get(r), batch)
                      /\ new_rows' = [new_rows EXCEPT ![T] = @ \o batch]
                      /\ pc' = "refit"
                      /\ UNCHANGED <<ti, batch>>
    /\ UNCHANGED <<report, config, upstream, watermarks, fits, strategies, loops, exports,
                   ticks, restarts, maxPassed, visits, polls>>

\* compute_and_store_fits(t)
RefitOk ==
    /\ pc = "refit"
    /\ fits' = [fits EXCEPT ![T] = @ \o FitRows(new_rows[T])]
    /\ hist' = EndPipe([hist EXCEPT !.refitRes = "ok"])
    /\ GoNext
    /\ UNCHANGED <<report, config, upstream, samples, watermarks, new_rows, strategies,
                   loops, exports, ticks, restarts, faults, maxPassed, visits, polls>>

\* compute_and_store_fits(t) raises while reading the archived series or
\* writing the fits: a failure of the local SQLite store (sqlite3 / pandas
\* error, not an error of the upstream driver)
RefitFail ==
    /\ pc = "refit"
    /\ hist' = AfterRaise([hist EXCEPT !.refitRes = "fail"], "other")
    /\ Fault(TRUE)
    /\ Raise("other")
    /\ UNCHANGED <<report, config, upstream, store, strategies, loops, exports,
                   ticks, restarts, maxPassed, visits, polls>>

\* the handler: total = get_total_count(t), 0 when that raises;
\* record_sample(t, total, [])
Except ==
    /\ pc = "except"
    /\ \E up \in BOOLEAN :
          /\ Fault(~up)
          /\ samples' = record_sample(samples, T, FallbackTotal(variant, upstream[T], up), <<>>)
          /\ hist' = EndPipe([hist EXCEPT !.fbRes = IF up THEN "ok" ELSE "fail"])
    /\ GoNext
    /\ UNCHANGED <<report, config, upstream, watermarks, new_rows, fits, strategies,
                   loops, exports, ticks, restarts, maxPassed, visits, polls>>

\* if STATUS_TABLE: poll_status_updates(STATUS_TABLE)  (the count is dropped,
\* a failure is caught inside)
Status ==
    /\ pc = "status"
    /\ hist' = [hist EXCEPT !.polled = TRUE]
    /\ polls' = polls + 1
    /\ pc' = IF variant = "mongo" THEN "export" ELSE "sleep"
    /\ UNCHANGED <<report, config, upstream, store, strategies, ti, batch, loops,
                   exports, ticks, restarts, faults, maxPassed, visits>>

\* if EXPORT_EVERY_N_LOOPS > 0 and loops % EXPORT_EVERY_N_LOOPS == 0
ExportDue(n, k) == n > 0 /\ k % n = 0

\* an export that empties the samples table once it has dumped its head
ExportClearing ==
    /\ pc = "export"
    /\ loops' = loops + 1
    /\ exports' = IF ExportDue(EXPORT_EVERY_N_LOOPS, loops + 1)
                  THEN exports + 1 ELSE exports
    /\ samples' = IF ExportDue(EXPORT_EVERY_N_LOOPS, loops + 1)
                  THEN [t \in Tables |-> <<>>] ELSE samples
    /\ pc' = "sleep"
    /\ UNCHANGED <<report, config, upstream, watermarks, new_rows, fits, strategies,
                   ti, batch, ticks, restarts, faults, maxPassed, visits, polls, hist>>

\* sampler_mongo.py: loops += 1 and the export every EXPORT_EVERY_N_LOOPS loops
Export ==
    /\ pc = "export"
    /\ loops' = loops + 1
    /\ exports' = IF ExportDue(EXPORT_EVERY_N_LOOPS, loops + 1)
                  THEN exports + 1 ELSE exports
    /\ pc' = "sleep"
    /\ UNCHANGED <<report, config, upstream, store, strategies, ti, batch,
                   ticks, restarts, faults, maxPassed, visits, polls, hist>>

\* time.sleep(SAMPLE_INTERVAL), then the next tick
Sleep ==
    /\ pc = "sleep"
    /\ ticks < MaxTicks
    /\ ticks' = ticks + 1
    /\ pc' = "scan"
    /\ ti' = 1
    /\ hist' = FreshHist
    /\ UNCHANGED <<report, config, upstream, store, strategies, batch, loops, exports,
                   restarts, faults, maxPassed, visits, polls>>

\* the process stops between two steps and is started again: the thread's
\* locals are lost, the SQLite file and the upstream store are kept
Crash ==
    /\ pc \notin {"boot", "dead"}
    /\ restarts < MaxRestarts
    /\ restarts' = restarts + 1
    /\ pc' = "boot"
    /\ ti' = 1
    /\ batch' = <<>>
    /\ loops' = 0
    /\ strategies' = [t \in Tables |-> None]
    /\ hist' = FreshHist
    /\ UNCHANGED <<report, config, upstream, store, exports, ticks, faults, maxPassed, visits, polls>>

Next ==
    \/ Insert
    \/ Start
    \/ Probe
    \/ ScanOk
    \/ ScanFail
    \/ ScanConvert
    \/ CountRecord
    \/ RefitOk
    \/ RefitFail
    \/ Except
    \/ Status
    \/ Export
    \/ Sleep

Spec == Init /\ [][Next]_vars

NextCrash == Next \/ Crash

SpecCrash == Init /\ [][NextCrash]_vars

\* --------------------------------------------- the duration conventions
\* the field values a record is tried with: a duration in ms or in seconds,
\* datetimes (also misordered ones), and timestamps kept as text
FieldSeq == <<"processing_time_ms", "duration_ms", "processing_time", "duration",
              "start_time", "end_time", "queued_at", "created_at", "inserted_at">>
ConvDocs ==
    [processing_time_ms : {None, Some(7)},
     duration_ms        : {None, Some(8)},
     processing_time    : {None, Some(3)},
     duration           : {None, Some(2)},
     start_time         : {None, Some(1), Some(5), Text(1)},
     end_time           : {None, Some(1), Some(5)},
     queued_at          : {None, Some(2)},
     created_at         : {None, Some(9), Text(9)},
     inserted_at        : {None, Some(4)}]

\* the columns of a table whose rows carry exactly the fields of doc
ColumnsOf(doc) == <<"id">> \o SelectSeq(FieldSeq, LAMBDA f : Has(doc, f))

\* the first tracked table holds one record, with any combination of fields;
\* the columns of a SQL table are typed, so it holds no text timestamp
InitConv ==
    /\ variant \in {"mongo", "pg"}
    /\ idKind = [t \in Tables |-> IF variant = "mongo" THEN "oid" ELSE "other"]
    /\ \E doc \in ConvDocs :
          /\ variant = "pg" => \A f \in Fields : Len(doc[f]) <= 1
          /\ columns = [t \in Tables |-> ColumnsOf(doc)]
          /\ upstream = [t \in Tables |-> IF t = TRACK_TABLES[1] THEN <<doc>> ELSE <<>>]
    /\ FreshProcess
    /\ view = NoView
    /\ dk = NoFits
    /\ label = None
    /\ NoTail
    /\ NoMirror

\* the sampler up to its first scan of the first table
NextConv ==
    \/ Start
    \/ Probe
    \/ ScanOk

SpecConv == InitConv /\ [][NextConv]_vars

\* ------------------------------------------------------ the Sample summary
\* the durations of the rows record_sample is tried on
SummaryDurs == {None, Some(10), Some(20), Some(30), Some(40), Some(100)}

\* the first table has been scanned: its records are the batch, in any order
\* of durations, and its watermark is the last of them.  sampler.py returns
\* either known durations only or (rows without convention) unknown ones
\* only.  The observation variables are those of a fresh process.
InitSummary ==
    /\ variant \in {"mongo", "pg"}
    /\ idKind = [t \in Tables |-> IF variant = "mongo" THEN "oid" ELSE "other"]
    /\ \E n \in 0..MaxBatch : \E durs \in [1..n -> SummaryDurs] :
          LET known == \A k \in 1..n : ~IsNone(durs[k])
              first == TRACK_TABLES[1]
              docs  == [k \in 1..n |-> [NoFields EXCEPT !["processing_time_ms"] = durs[k]]]
              rows  == [k \in 1..n |-> <<StrId(idKind[first], k), durs[k]>>]
          IN  /\ variant = "pg" => (known \/ \A k \in 1..n : IsNone(durs[k]))
              /\ columns = [t \in Tables |->
                               IF variant = "pg" /\ ~known THEN <<"id">>
                               ELSE <<"id", "processing_time_ms">>]
              /\ upstream = [t \in Tables |-> IF t = first THEN docs ELSE <<>>]
              /\ ProcessAt("count", rows,
                           [t \in Tables |->
                               IF t = first /\ n > 0 THEN Some(rows[n][1]) ELSE None])
    /\ view = NoView
    /\ dk = NoFits
    /\ label = None
    /\ NoTail
    /\ NoMirror

\* the rest of the table's pipeline up to record_sample
NextSummary ==
    \/ CountRecord
    \/ Except

SpecSummary == InitSummary /\ [][NextSummary]_vars

\* ----------------------------------------- the end of a tick: export, sleep
\* SAMPLE_INTERVAL / POLL_INTERVAL, in time units
INTERVAL == 3
\* the export frequencies a process is started with (MT_EXPORT_EVERY_N_SAMPLES)
Frequencies == {-1, 0, 1, 2, 3}

\* the argument of time.sleep at the end of a tick whose processing took
\* `elapsed`: the samplers sleep the whole interval, app.py sampler_loop
\* the rest of it
sleep_for(v, elapsed) ==
    IF v = "app" THEN (IF INTERVAL - elapsed > 0 THEN INTERVAL - elapsed ELSE 0)
    ELSE INTERVAL

\* run_export_all: the SQLite heads, the head of each tracked table, the
\* report, in this order
ExportSteps == <<"sqlite">> \o TRACK_TABLES \o <<"report">>

\* an export that stops at the first step that fails
run_export_abort(failed) ==
    {ExportSteps[j] : j \in {k \in 1..Len(ExportSteps) :
                                \A i \in 1..k : ExportSteps[i] \notin failed}}

\* run_export_all when the steps in `failed` raise: every step has its own
\* try / except, the steps whose artifacts are written are all the others
run_export_all(failed) == {st \in Range(ExportSteps) : st \notin failed}

\* a process at the start of its first tick: one of the two samplers, or
\* the sampler_loop of app.py (which has no export)
InitTail ==
    /\ variant \in {"mongo", "pg", "app"}
    /\ idKind = [t \in Tables |-> IF variant = "pg" THEN "other" ELSE "oid"]
    /\ columns = [t \in Tables |-> <<"id", "processing_time_ms">>]
    /\ upstream = [t \in Tables |-> <<>>]
    /\ ProcessAt("scan", <<>>, [t \in Tables |-> None])
    /\ view = NoView
    /\ dk = NoFits
    /\ label = None
    /\ started = <<0>>
    /\ took = <<>>
    /\ every \in Frequencies
    /\ variant # "mongo" => every = EXPORT_EVERY_N_LOOPS
    /\ exported = NoExport
    /\ NoMirror

\* the tables and the status poll of the tick are processed; with the export
\* that may follow, this takes some time
TickWork ==
    /\ pc = "scan"
    /\ \E d \in 0..MaxBusy : took' = Append(took, d)
    /\ pc' = IF variant = "mongo" THEN "export" ELSE "sleep"
    /\ UNCHANGED <<config, upstream, store, strategies, ti, batch, loops, exports,
                   ticks, restarts, faults, maxPassed, visits, polls, hist,
                   view, dk, label, mirror, started, every, exported>>

\* loops += 1; if due: try: run_export_all() except Exception: pass
ExportRun ==
    /\ pc = "export"
    /\ loops' = loops + 1
    /\ IF ExportDue(every, loops + 1)
       THEN /\ \E failed \in SUBSET Range(ExportSteps) :
                  exported' = [at      |-> exported.at \cup {loops + 1},
                               failed  |-> failed,
                               written |-> run_export_all(failed)]
            /\ exports' = exports + 1
       ELSE UNCHANGED <<exported, exports>>
    /\ pc' = "sleep"
    /\ UNCHANGED <<config, upstream, store, strategies, ti, batch,
                   ticks, restarts, faults, maxPassed, visits, polls, hist,
                   view, dk, label, mirror, started, took, every>>

\* time.sleep(...): the next tick starts when the sleep is over
Pause ==
    /\ pc = "sleep"
    /\ ticks < MaxTicks
    /\ started' = Append(started, Last(started) + Last(took)
                                     + sleep_for(variant, Last(took)))
    /\ ticks' = ticks + 1
    /\ pc' = "scan"
    /\ UNCHANGED <<config, upstream, store, strategies, ti, batch, loops, exports,
                   restarts, faults, maxPassed, visits, polls, hist,
                   view, dk, label, mirror, took, every, exported>>

NextTail ==
    \/ TickWork
    \/ ExportRun
    \/ Pause

SpecTail == InitTail /\ [][NextTail]_vars

\* ------------------------------------------------- the report's classifier
\* exporter.py _classify and the classify of sampler_mongo.py (the same code
\* but for float(...) around the values read).  r2 is in hundredths and a
\* slope in units of 1e-7, so 0.02 is 2 and 1e-6 is 10.  The labels stand for
\* "linear [up arrow]", "linear [down arrow]", "exponential [up arrow]",
\* "exponential [down arrow]".
MARGIN == 2
SLOPE_EPS == 10

\* the fits the classifier is tried on: the least-squares results are
\* floating-point values, any slope and any r2 in [0, 1] can be stored
SlopeVals == {-20, 0, 9, 10}
R2Vals == {80, 90, 91, 92, 95}
FitOpts == {None} \cup {Some([slope |-> sl, r2 |-> r]) : sl \in SlopeVals, r \in R2Vals}

classify_with(dkinds, margin) ==
    LET L == dkinds.linear
        E == dkinds.exponential
    IN  IF IsNone(L) /\ IsNone(E) THEN "insufficient data"
        ELSE IF ~IsNone(L) /\ (IsNone(E) \/ Get(L).r2 >= Get(E).r2 - margin)
        THEN (IF Abs(Get(L).slope) < SLOPE_EPS THEN "roughly constant"
              ELSE IF Get(L).slope > 0 THEN "linear up" ELSE "linear down")
        ELSE IF ~IsNone(E)
        THEN (IF Get(E).slope > 0 THEN "exponential up" ELSE "exponential down")
        ELSE "insufficient data"

\* a classifier that takes the better r2 without any margin
classify_no_margin(dkinds) == classify_with(dkinds, 0)

classify(dkinds) == classify_with(dkinds, MARGIN)

\* the report is written for a table whose latest fits are any two fits
InitClassify ==
    /\ SamplerInit
    /\ variant = "mongo" /\ \A t \in Tables : idKind[t] = "oid"
    /\ view = NoView
    /\ dk \in [linear : FitOpts, exponential : FitOpts]
    /\ label = None
    /\ NoTail
    /\ NoMirror

\* lines.append(f"- **{t}**: {classify(dk)} (...)")
Classify ==
    /\ IsNone(label)
    /\ label' = Some(classify(dk))
    /\ UNCHANGED <<config, upstream, store, strategies, pc, ti, batch, loops, exports,
                   ticks, restarts, faults, maxPassed, visits, polls, hist,
                   view, dk, tail, mirror>>

NextClassify == Classify

SpecClassify == InitClassify /\ [][NextClassify]_vars

\* ------------------------------------------- the fits table and its readers
\* a stored fit with its timestamp: ts_utc is taken at the insert, so the
\* rows of a table are in timestamp order and the position stands for it
Stamped(f) == [k \in 1..Len(f) |-> [kind |-> f[k].kind, n |-> f[k].n, ts |-> k]]

\* exporter.py latest_fits (and the same query in _write_report_md), for one
\* table: the rows joined on MAX(ts_utc) per kind, kept one per kind
latest_fits(f) ==
    SelectSeq(Stamped(f),
              LAMBDA r : \A k \in 1..Len(f) : f[k].kind = r.kind => k <= r.ts)

\* main.py dashboard: ... WHERE table_name=? ORDER BY ts_utc DESC LIMIT 2
dashboard_fits(f) ==
    LET rows == Stamped(f)
        n    == Len(rows)
    IN  [k \in 1..Min2(n, 2) |-> rows[n + 1 - k]]

\* the durations a row is archived with: unknown, zero, positive
ArchDurs == {None, Some(0), Some(10), Some(20), Some(40)}

RowsIn(tab) == SumSeq([k \in 1..NTables |-> Len(tab[TRACK_TABLES[k]])])

\* the store when the sampler has archived nothing yet
InitFits ==
    /\ SamplerInit
    /\ variant = "mongo" /\ \A t \in Tables : idKind[t] = "oid"
    /\ view = NoView
    /\ dk = NoFits
    /\ label = None
    /\ NoTail
    /\ NoMirror

\* record_sample archives one more scanned row of a table, with any duration
Archive ==
    /\ RowsIn(new_rows) < MaxArchived
    /\ \E t \in Tables : \E d \in ArchDurs :
          new_rows' = [new_rows EXCEPT
                          ![t] = Append(@, <<StrId(idKind[t], Len(@) + 1), d>>)]
    /\ UNCHANGED <<config, upstream, samples, watermarks, fits, strategies, pc, ti,
                   batch, loops, exports, ticks, restarts, faults, maxPassed, visits,
                   polls, hist, report>>

\* compute_and_store_fits(t) over what is archived; a view taken before is
\* of the table as it was and is dropped
Refit ==
    /\ \E t \in Tables :
          /\ RowsIn(fits) + Len(FitRows(new_rows[t])) <= MaxFitRows
          /\ fits' = [fits EXCEPT ![t] = @ \o FitRows(new_rows[t])]
    /\ view' = NoView
    /\ UNCHANGED <<config, upstream, samples, watermarks, new_rows, strategies, pc, ti,
                   batch, loops, exports, ticks, restarts, faults, maxPassed, visits,
                   polls, hist, dk, label, tail, mirror>>

\* exporter.py latest_fits, read for one table
ReadLatest ==
    /\ \E t \in Tables :
          view' = [reader |-> "latest_fits", table |-> t, rows |-> latest_fits(fits[t])]
    /\ UNCHANGED <<config, upstream, store, strategies, pc, ti, batch, loops, exports,
                   ticks, restarts, faults, maxPassed, visits, polls, hist,
                   dk, label, tail, mirror>>

\* main.py dashboard: the fits query of one table
ReadDashboard ==
    /\ \E t \in Tables :
          view' = [reader |-> "dashboard", table |-> t, rows |-> dashboard_fits(fits[t])]
    /\ UNCHANGED <<config, upstream, store, strategies, pc, ti, batch, loops, exports,
                   ticks, restarts, faults, maxPassed, visits, polls, hist,
                   dk, label, tail, mirror>>

NextFits ==
    \/ Archive
    \/ Refit
    \/ ReadLatest
    \/ ReadDashboard

SpecFits == InitFits /\ [][NextFits]_vars

\* ------------------------------------------------ app.py: the status mirror
\* A status update is [id, timestamp, createdAt]: its _id is an ObjectId,
\* which grows with the insertions (1, 2, ...); timestamp is absent (None),
\* a datetime Some(v), or an ISO string ending in Z, Text(v); createdAt is
\* absent or a datetime.  v is the time of the insertion.
StatusDoc(id, ts, ca) == [id |-> id, timestamp |-> ts, createdAt |-> ca]

\* _parse_dt_maybe(v): the aware datetime of a datetime or of an ISO string,
\* None for anything else
parse_dt_maybe(v) == IF IsNone(v) THEN None ELSE Some(v[1])

\* {"timestamp": {"$gt": last_status_ts.isoformat()}} on a string stored with
\* a final Z: strings compare byte by byte, and "...T00:00:01.000Z" is after
\* "...T00:00:01+00:00", the isoformat() of the same instant, so the string
\* of an instant v is greater than the isoformat of w exactly when v >= w
TextGt(v, w) == v >= w

\* the filter q of sample_once: $gt matches values of the type of its operand
Matches(st, doc) ==
    IF ~IsNone(st.last_status_ts)
    THEN LET w == Get(st.last_status_ts)
         IN  \/ Len(doc.timestamp) = 1 /\ doc.timestamp[1] > w
             \/ Len(doc.timestamp) = 2 /\ TextGt(doc.timestamp[1], w)
    ELSE IF ~IsNone(st.last_status_id)
    THEN doc.id > Get(st.last_status_id)
    ELSE TRUE

\* ts_val = _parse_dt_maybe(timestamp) or _parse_dt_maybe(createdAt) or now
ts_val(doc, now) ==
    IF ~IsNone(parse_dt_maybe(doc.timestamp)) THEN Get(parse_dt_maybe(doc.timestamp))
    ELSE IF ~IsNone(parse_dt_maybe(doc.createdAt)) THEN Get(parse_dt_maybe(doc.createdAt))
    ELSE now

\* the loop over the cursor: last_seen_ts and last_seen_id after the documents
RECURSIVE LastSeen(_, _, _)
LastSeen(st, docs, now) ==
    IF docs = <<>> THEN st
    ELSE LET tv == ts_val(Head(docs), now)
             id == Head(docs).id
         IN  LastSeen([last_status_ts |->
                          IF IsNone(st.last_status_ts) \/ tv > Get(st.last_status_ts)
                          THEN Some(tv) ELSE st.last_status_ts,
                       last_status_id |->
                          IF IsNone(st.last_status_id) \/ id > Get(st.last_status_id)
                          THEN Some(id) ELSE st.last_status_id],
                      Tail(docs), now)

\* the app.py process after start
InitMirror ==
    /\ variant = "app"
    /\ idKind = [t \in Tables |-> "oid"]
    /\ columns = [t \in Tables |-> <<"id", "processing_time_ms">>]
    /\ upstream = [t \in Tables |-> <<>>]
    /\ ProcessAt("scan", <<>>, [t \in Tables |-> None])
    /\ view = NoView
    /\ dk = NoFits
    /\ label = None
    /\ NoTail
    /\ NoMirror

\* time passes
Advance ==
    /\ statusdb.now < MaxClock
    /\ statusdb' = [statusdb EXCEPT !.now = @ + 1]
    /\ UNCHANGED <<config, upstream, store, strategies, pc, ti, batch, loops, exports,
                   ticks, restarts, faults, maxPassed, visits, polls, hist,
                   view, dk, label, tail, state>>

\* the pipeline inserts a status update, stamped with the time it is
\* inserted at
InsertStatus ==
    /\ Len(statusdb.updates) < MaxStatus
    /\ \E ts \in {None, Some(statusdb.now), Text(statusdb.now)} :
       \E ca \in {None, Some(statusdb.now)} :
          statusdb' = [statusdb EXCEPT
                          !.updates = Append(@, StatusDoc(Len(@) + 1, ts, ca))]
    /\ UNCHANGED <<config, upstream, store, strategies, pc, ti, batch, loops, exports,
                   ticks, restarts, faults, maxPassed, visits, polls, hist,
                   view, dk, label, tail, state>>

\* sample_once: the status part.  The documents the query finds, in _id
\* order, are appended to the mirror and the state is advanced; if the
\* find raises, the except leaves the state and nothing is copied.
SampleOnce ==
    /\ statusdb.polls < MaxPolls
    /\ \E up \in BOOLEAN :
          LET found == IF up THEN SelectSeq(statusdb.updates, LAMBDA d : Matches(state, d))
                       ELSE <<>>
          IN  /\ state' = IF up THEN LastSeen(state, found, statusdb.now) ELSE state
              /\ statusdb' = [statusdb EXCEPT
                                 !.mirror = @ \o [k \in 1..Len(found) |-> found[k].id],
                                 !.polls  = @ + 1,
                                 !.seen   = IF up THEN Len(statusdb.updates) ELSE @]
    /\ UNCHANGED <<config, upstream, store, strategies, pc, ti, batch, loops, exports,
                   ticks, restarts, faults, maxPassed, visits, polls, hist,
                   view, dk, label, tail>>

NextMirror ==
    \/ Advance
    \/ InsertStatus
    \/ SampleOnce

SpecMirror == InitMirror /\ [][NextMirror]_vars

\* ================================================================== claims
\* the identifiers archived in new_rows for a table
ArchivedIds(t) == {new_rows[t][k][1].n : k \in 1..Len(new_rows[t])}
\* the identifiers a scan returned
GotIds(rows) == [k \in 1..Len(rows) |-> rows[k][1].n]
\* the pipeline of the table processed last ran without any failure
CleanPipe ==
    /\ hist.done
    /\ hist.scanRes = "ok" /\ hist.countRes = "ok" /\ hist.refitRes = "ok"

\* C1 (gap-free sampling): every pipeline of a table appends exactly one
\* Sample row for it, whatever fails, so that at the end of tick k every
\* table has k Sample rows.
C1_GapFree ==
    /\ hist.done => Len(samples[hist.t]) = hist.sBase + 1
    /\ pc = "sleep" => \A t \in Tables : Len(samples[t]) = ticks + 1

\* C2 (no re-scan): a scan returns only identifiers greater than the
\* watermark it read, and no identifier is archived in new_rows twice.
C2_NoRescan ==
    /\ hist.scanRes = "ok" =>
          \A k \in 1..Len(hist.got) : hist.got[k][1].n > hist.wmRead
    /\ \A t \in Tables : \A j, k \in 1..Len(new_rows[t]) :
          j # k => new_rows[t][j][1] # new_rows[t][k][1]

\* C3 (no loss across restarts): when the process has stopped and is started
\* again, every upstream record at or below the stored watermark is archived
\* in new_rows.
C3_NoLossAcrossRestart ==
    (pc = "boot" /\ restarts > 0) =>
        \A t \in Tables :
            \A id \in 1..Min2(WmN(watermarks[t]), Len(upstream[t])) : id \in ArchivedIds(t)

\* C4 (failure isolation): the sampler thread never ends, and in every tick
\* every tracked table's pipeline is entered and the status poll is run,
\* whatever upstream failure the tables before them met.
C4_FailureIsolation ==
    /\ pc # "dead"
    /\ pc \in {"scan", "count", "refit", "except"} =>
          /\ \A k \in 1..NTables :
                visits[TRACK_TABLES[k]] =
                    ticks + (IF k < ti \/ (k = ti /\ pc # "scan") THEN 1 ELSE 0)
          /\ polls = ticks
    /\ pc \in {"status", "export", "sleep"} =>
          /\ \A t \in Tables : visits[t] = ticks + 1
          /\ polls = ticks + (IF pc = "status" THEN 0 ELSE 1)

\* C4 witness: a table was unreachable in this tick, a later table was then
\* processed without failure, the status poll has run and the next tick can
\* start.
C4_Witness ==
    /\ pc = "sleep" /\ ticks < MaxTicks
    /\ hist.outage /\ hist.polled
    /\ hist.t = TRACK_TABLES[NTables] /\ CleanPipe

\* C5 (watermark monotonicity): the stored watermark of a table is the
\* greatest identifier ever passed to upsert_watermark for it (and there is
\* none stored while nothing was passed).
C5_WatermarkIsMax ==
    \A t \in Tables : WmN(get_watermark(watermarks, t)) = maxPassed[t]

\* C5 witness: the watermark of a table was written in two ticks and moved up.
C5_Witness ==
    \E t \in Tables :
        /\ WmN(get_watermark(watermarks, t)) >= 2
        /\ hist.t = t /\ hist.wrote /\ hist.wmRead >= 1

\* C6 (ADVANCE_WATERMARK): after a scan that succeeded, the watermark was
\* written iff the table held a record above the watermark read, and it is
\* then the highest identifier of the batch, null durations included.
C6_AdvanceIff ==
    hist.scanRes = "ok" =>
        /\ hist.wrote <=> hist.upLen > hist.wmRead
        /\ hist.wrote =>
              WmN(watermarks[hist.t]) = Min2(hist.upLen, hist.wmRead + BatchLimit)

\* C7 (new_count): after a pipeline without failure, the Sample's new_rows
\* is the number of upstream records above the watermark read, capped at
\* the batch size, unknown durations included.
C7_NewCount ==
    CleanPipe =>
        Last(samples[hist.t]).new_rows = Len(ScanIds(hist.upLen, hist.wmRead))

\* C8 (first scan): a successful scan of a table with no stored watermark
\* returns all its records up to the cap, ascending, under every profile, so
\* a non-empty table then has a watermark.
C8_FirstScanAll ==
    (hist.scanRes = "ok" /\ hist.wmRead = 0) =>
        /\ GotIds(hist.got) = ScanIds(hist.upLen, 0)
        /\ hist.upLen > 0 => ~IsNone(watermarks[hist.t])

\* C9 (unreachable table): when every upstream query of a table's pipeline
\* failed, exactly one Sample is appended for it, with total_count 0 and
\* new_rows 0; a table processed without failure in a tick with such an
\* outage gets its Sample with its own count and its own scanned rows.
C9_Unreachable ==
    /\ (hist.done /\ UnreachableIn(hist)) =>
          /\ Len(samples[hist.t]) = hist.sBase + 1
          /\ Last(samples[hist.t]).total_count = 0
          /\ Last(samples[hist.t]).new_rows = 0
    /\ (hist.outage /\ CleanPipe) =>
          /\ Len(samples[hist.t]) = hist.sBase + 1
          /\ Last(samples[hist.t]).total_count = Len(upstream[hist.t])
          /\ Last(samples[hist.t]).new_rows = Len(hist.got)

\* C9 witness: after an outage of an earlier table, a non-empty table was
\* scanned, counted and recorded in the same tick.
C9_Witness ==
    /\ hist.outage /\ CleanPipe
    /\ hist.t = TRACK_TABLES[NTables]
    /\ Len(hist.got) > 0
    /\ Len(samples[TRACK_TABLES[1]]) = Len(samples[hist.t])
    /\ Last(samples[TRACK_TABLES[1]]).total_count = 0

\* C10 (COUNT_TOTAL decoupled): when the count query fails after a scan that
\* succeeded, the scanned rows are still counted in the tick's Sample and
\* archived in new_rows.
C10_CountDecoupled ==
    (hist.done /\ hist.scanRes = "ok" /\ hist.countRes = "fail") =>
        /\ Len(samples[hist.t]) > hist.sBase
        /\ samples[hist.t][hist.sBase + 1].new_rows = Len(hist.got)
        /\ \A k \in 1..Len(hist.got) : hist.got[k][1].n \in ArchivedIds(hist.t)

\* C11 (backpressure and catch-up): a successful scan returns the records
\* just above the watermark, at most the batch cap of them, each once, and
\* leaves the watermark on the last of them; so the records beyond the cap
\* stay above the watermark for the next ticks, the backlog of a table that
\* has stopped growing shrinks by the cap at every tick, and when no more
\* than the cap were pending the watermark is the table's greatest
\* identifier.
C11_CatchUp ==
    hist.scanRes = "ok" =>
        /\ Len(hist.got) <= BatchLimit
        /\ GotIds(hist.got) = ScanIds(hist.upLen, hist.wmRead)
        /\ WmN(get_watermark(watermarks, hist.t)) = Min2(hist.upLen, hist.wmRead + BatchLimit)
        /\ hist.upLen <= hist.wmRead + BatchLimit =>
              WmN(get_watermark(watermarks, hist.t)) = Len(upstream[hist.t])

\* C12 (poll without new records): when a scan returns nothing and the count
\* succeeds, the Sample appended has new_rows 0 and null mean / p50 / p95,
\* its total_count is the table's count and so equals the previous Sample's
\* when that one counted the same, unchanged table; the stored watermark is
\* the one that was read.
C12_NoNewRecords ==
    (hist.scanRes = "ok" /\ hist.got = <<>> /\ hist.countRes = "ok") =>
        /\ Len(samples[hist.t]) > hist.sBase
        /\ LET s == samples[hist.t][hist.sBase + 1]
           IN  /\ s.new_rows = 0
               /\ IsNone(s.mean_ms) /\ IsNone(s.p50_ms) /\ IsNone(s.p95_ms)
               /\ s.total_count = hist.upLen
               /\ (hist.sBase > 0
                     /\ samples[hist.t][hist.sBase].total_count = hist.upLen)
                  => s.total_count = samples[hist.t][hist.sBase].total_count
        /\ WmN(get_watermark(watermarks, hist.t)) = hist.wmRead
        /\ new_rows[hist.t] = SubSeq(new_rows[hist.t], 1, hist.rBase)

\* C12 witness: the second poll of a non-empty table found nothing new, after
\* a first poll that scanned and counted it.
C12_Witness ==
    /\ hist.done /\ hist.scanRes = "ok" /\ hist.got = <<>> /\ hist.countRes = "ok"
    /\ hist.upLen > 0 /\ hist.wmRead = hist.upLen
    /\ hist.sBase > 0
    /\ samples[hist.t][hist.sBase].total_count = hist.upLen
    /\ samples[hist.t][hist.sBase].new_rows > 0

\* C13 (local store failure is fatal): once a call on the local SQLite store
\* has raised inside a table's pipeline, the pipeline does not end with the
\* sampler going on to the next table or tick: sampling has stopped.
C13_StoreFailureFatal ==
    (hist.done /\ hist.refitRes = "fail") => pc = "dead"

\* C14 (idempotence of advance): on every store the run reaches,
\* upsert_watermark(t, id) applied twice with the same id leaves
\* get_watermark(t) = id, gives the same store as applying it once (one row
\* per table) and leaves the rows of the other tables as they were; and a
\* watermark that a scan has written is the identifier it passed, also when
\* that identifier was already stored.  The watermarks change in the scan
\* step only, so the stores are those seen before a scan and at the end of
\* a tick.
C14_UpsertIdempotent ==
    /\ pc \in {"scan", "sleep"} =>
       \A t \in Tables : \A n \in 1..(Len(upstream[t]) + 1) :
          LET id == StrId(idKind[t], n)
              w1 == upsert_watermark(watermarks, t, id)
              w2 == upsert_watermark(w1, t, id)
          IN  /\ get_watermark(w1, t) = Some(id)
              /\ get_watermark(w2, t) = Some(id)
              /\ w2 = w1
              /\ DOMAIN w2 = Tables
              /\ \A u \in Tables \ {t} : w2[u] = watermarks[u]
    /\ hist.wrote => get_watermark(watermarks, hist.t) = Some(Last(hist.got)[1])

\* C14 witness: a scan passed to upsert_watermark the identifier that was
\* already stored for the table, while the other table has no watermark row.
C14_Witness ==
    /\ hist.wrote /\ hist.wmRead > 0
    /\ Last(hist.got)[1].n = hist.wmRead
    /\ get_watermark(watermarks, hist.t) = Some(Last(hist.got)[1])
    /\ \E u \in Tables \ {hist.t} : IsNone(get_watermark(watermarks, u))

\* the fit the classification is to be made on: with both fits, the
\* exponential one iff its r2 exceeds the linear r2 by more than the margin
Selected ==
    IF IsNone(dk.linear) THEN dk.exponential
    ELSE IF IsNone(dk.exponential) THEN dk.linear
    ELSE IF Get(dk.exponential).r2 > Get(dk.linear).r2 + MARGIN THEN dk.exponential
    ELSE dk.linear
IsExpLabel == label \in {Some("exponential up"), Some("exponential down")}
IsLinLabel == label \in {Some("linear up"), Some("linear down"), Some("roughly constant")}

\* C15 (model selection): with both fits the classification is exponential
\* iff the exponential r2 exceeds the linear r2 by more than 0.02, otherwise
\* linear; with one fit that fit is used; with none it is "insufficient data".
C15_ModelSelection ==
    ~IsNone(label) =>
        /\ (IsNone(dk.linear) /\ IsNone(dk.exponential)) <=> label = Some("insufficient data")
        /\ (~IsNone(dk.linear) /\ IsNone(dk.exponential)) => IsLinLabel
        /\ (IsNone(dk.linear) /\ ~IsNone(dk.exponential)) => IsExpLabel
        /\ (~IsNone(dk.linear) /\ ~IsNone(dk.exponential)) =>
              /\ IsExpLabel <=> Get(dk.exponential).r2 > Get(dk.linear).r2 + MARGIN
              /\ IsLinLabel <=> Get(dk.exponential).r2 <= Get(dk.linear).r2 + MARGIN

\* C15 witness: linear r2 0.90 against exponential r2 0.91 was classified
\* linear.
C15_Witness ==
    /\ ~IsNone(dk.linear) /\ ~IsNone(dk.exponential)
    /\ Get(dk.linear).r2 = 90 /\ Get(dk.exponential).r2 = 91
    /\ Get(dk.linear).slope = 10
    /\ label = Some("linear up")

\* C16 (trend direction): when the selected fit has |slope| < 1e-6 the
\* classification is "roughly constant", whichever kind is selected;
\* otherwise it is an increasing one for a positive slope and a decreasing
\* one for a negative slope.
C16_TrendDirection ==
    (~IsNone(label) /\ ~IsNone(Selected)) =>
        LET sl == Get(Selected).slope
        IN  /\ Abs(sl) < SLOPE_EPS => label = Some("roughly constant")
            /\ (Abs(sl) >= SLOPE_EPS /\ sl > 0) => label \in {Some("linear up"), Some("exponential up")}
            /\ (Abs(sl) >= SLOPE_EPS /\ sl < 0) => label \in {Some("linear down"), Some("exponential down")}

\* the archived duration series of a table, and its positive values
Known(t) ==
    LET rows == SelectSeq(new_rows[t], LAMBDA r : ~IsNone(r[2]))
    IN  [k \in 1..Len(rows) |-> Get(rows[k][2])]
Positive(y) == SelectSeq(y, LAMBDA v : v > 0)
Constant(y) == \A i, j \in 1..Len(y) : y[i] = y[j]
FitKinds == {"linear", "exponential"}

\* C17 (latest fits): what a reader of the latest fits returned for a table
\* has at most one fit per kind, and for each kind with a stored fit it has
\* the stored fit of that kind with the greatest timestamp.
C17_LatestFits ==
    view.reader # "none" =>
        LET f == fits[view.table]
            rows == view.rows
        IN  /\ \A i, j \in 1..Len(rows) : i # j => rows[i].kind # rows[j].kind
            /\ \A kind \in FitKinds :
                  (\E k \in 1..Len(f) : f[k].kind = kind) =>
                      \E i \in 1..Len(rows) :
                          /\ rows[i].kind = kind
                          /\ \A k \in 1..Len(f) : f[k].kind = kind => k <= rows[i].ts

\* C18 (REFIT gating): a table has fit rows only if its archived duration
\* series is non-empty; a linear fit row is over at least 2 points of the
\* series and an exponential one over at least 2 strictly positive points;
\* with a single archived duration there is no fit row.
C18_RefitGating ==
    \A t \in Tables :
        /\ fits[t] # <<>> => Known(t) # <<>>
        /\ Len(Known(t)) = 1 => fits[t] = <<>>
        /\ \A k \in 1..Len(fits[t]) :
              LET r == fits[t][k]
              IN  /\ r.kind \in FitKinds
                  /\ r.n >= 2
                  /\ r.kind = "linear" => r.n <= Len(Known(t))
                  /\ r.kind = "exponential" => r.n <= Len(Positive(Known(t)))

\* C18 witness: a table with three archived durations of which one is
\* positive has linear fit rows and no exponential one, while the other
\* table's only archived row has no duration and it has no fit row.
C18_Witness ==
    \E t, u \in Tables :
        /\ Len(Known(t)) >= 2 /\ Len(Positive(Known(t))) = 1
        /\ fits[t] # <<>> /\ \A k \in 1..Len(fits[t]) : fits[t][k].kind = "linear"
        /\ u # t /\ new_rows[u] # <<>> /\ Known(u) = <<>> /\ fits[u] = <<>>

\* C19 (regression degeneracy): no stored fit is over a degenerate series:
\* a linear fit row is over at least 2 points that are not all equal, an
\* exponential fit row over at least 2 positive points that are not all
\* equal.
C19_Degeneracy ==
    \A t \in Tables : \A k \in 1..Len(fits[t]) :
        LET r == fits[t][k]
        IN  /\ r.n >= 2
            /\ r.kind = "linear" => ~Constant(SubSeq(Known(t), 1, r.n))
            /\ r.kind = "exponential" => ~Constant(SubSeq(Positive(Known(t)), 1, r.n))

\* the duration of a record under the table's active convention (the first
\* of the profile's conventions), None when its fields are absent or null
ConventionDuration(strat, doc) ==
    IF ~IsNone(strat.has_ms) THEN doc[Get(strat.has_ms)]
    ELSE IF ~IsNone(strat.has_secs)
    THEN (IF Has(doc, Get(strat.has_secs))
          THEN Some(Val(doc, Get(strat.has_secs)) * 1000) ELSE None)
    ELSE IF strat.start_end
    THEN (IF Has(doc, "start_time") /\ Has(doc, "end_time")
          THEN Some(Val(doc, "end_time") - Val(doc, "start_time")) ELSE None)
    ELSE IF strat.queued_created
    THEN (IF Has(doc, Get(strat.created_col)) /\ Has(doc, "queued_at")
          THEN Some(Val(doc, Get(strat.created_col)) - Val(doc, "queued_at")) ELSE None)
    ELSE None

\* C20 (partial data): in a table with a duration convention, a record above
\* the watermark (within the cap) whose convention fields are absent or null
\* is returned by a successful scan with an unknown duration, and after a
\* pipeline without failure it is archived in new_rows with a null duration
\* and counted in the Sample.
C20_PartialData ==
    LET t     == hist.t
        strat == detect_keys_and_times(PkCols, columns[t])
        ids   == ScanIds(hist.upLen, hist.wmRead)
    IN  (hist.scanRes = "ok" /\ HasConvention(strat)) =>
            /\ \A k \in 1..Len(ids) :
                  IsNone(ConventionDuration(strat, upstream[t][ids[k]])) =>
                      \E j \in 1..Len(hist.got) :
                          hist.got[j][1].n = ids[k] /\ IsNone(hist.got[j][2])
            /\ CleanPipe =>
                  /\ \A k \in 1..Len(ids) :
                        IsNone(ConventionDuration(strat, upstream[t][ids[k]])) =>
                            \E j \in hist.rBase + 1..Len(new_rows[t]) :
                                new_rows[t][j][1].n = ids[k] /\ IsNone(new_rows[t][j][2])
                  /\ Last(samples[t]).new_rows >= Len(ids)

\* the duration the convention of highest priority among the present fields
\* gives: ms as is, seconds times 1000, end minus start, created (else
\* inserted) minus queued, else unknown
ExpectedDuration(doc) ==
    IF Has(doc, "processing_time_ms") THEN Some(doc["processing_time_ms"][1])
    ELSE IF Has(doc, "duration_ms") THEN Some(doc["duration_ms"][1])
    ELSE IF Has(doc, "processing_time") THEN Some(doc["processing_time"][1] * 1000)
    ELSE IF Has(doc, "duration") THEN Some(doc["duration"][1] * 1000)
    ELSE IF Has(doc, "start_time") /\ Has(doc, "end_time")
    THEN Some(doc["end_time"][1] - doc["start_time"][1])
    ELSE IF Has(doc, "queued_at") /\ Has(doc, "created_at")
    THEN Some(doc["created_at"][1] - doc["queued_at"][1])
    ELSE IF Has(doc, "queued_at") /\ Has(doc, "inserted_at")
    THEN Some(doc["inserted_at"][1] - doc["queued_at"][1])
    ELSE None

\* C21 (convention priority): the duration a successful first scan returns
\* for the one record of a table is the one of the first convention, in the
\* order ms field, seconds field, start/end pair, queued/created pair, none,
\* whose fields are present: the ms value as is, the seconds value times
\* 1000, end minus start or created minus queued in ms (negative results
\* included), and unknown when no convention's fields are present.
C21_ConventionPriority ==
    (pc = "count" /\ hist.scanRes = "ok" /\ hist.upLen = 1 /\ hist.wmRead = 0) =>
        LET doc == upstream[hist.t][1]
            got == IF hist.got = <<>> THEN None ELSE hist.got[1][2]
        IN  got = ExpectedDuration(doc)

\* the table processed last is one whose start-up probe failed (sampler.py)
ProbeFailed ==
    /\ variant = "pg" /\ hist.t \in Tables
    /\ IsNone(strategies[hist.t])

\* C22 (probe failure): a failed start-up probe leaves the table without a
\* profile and the sampler running; in every tick the pipeline of such a
\* table attempts to count its records, and a scan of it that succeeds is
\* made with the profile of its real columns, probed again in that tick.
C22_ProbeFailure ==
    /\ pc # "dead"
    /\ (ProbeFailed /\ hist.done) =>
          (hist.countRes # "none" \/ hist.fbRes # "none")
    /\ (ProbeFailed /\ hist.scanRes = "ok") =>
          hist.got = get_new_rows_with_duration(
                         SubSeq(upstream[hist.t], 1, hist.upLen),
                         detect_keys_and_times(PkCols, columns[hist.t]),
                         IF hist.wmRead = 0 THEN None
                         ELSE Some(StrId(idKind[hist.t], hist.wmRead)))

\* the known durations of a batch, and the k-th smallest of a series
KnownOf(rows) ==
    LET kept == SelectSeq(rows, LAMBDA r : ~IsNone(r[2]))
    IN  [k \in 1..Len(kept) |-> Get(kept[k][2])]
Ranked(d, k) ==
    CHOOSE v \in Range(d) :
        /\ Cardinality({i \in 1..Len(d) : d[i] < v}) < k
        /\ Cardinality({i \in 1..Len(d) : d[i] <= v}) >= k
\* the q-th percentile by linear interpolation between the closest ranks
Percentile(d, q) ==
    LET h  == (Len(d) - 1) * q
        lo == h \div 100 + 1
        fr == h % 100
        hi == IF fr = 0 THEN lo ELSE lo + 1
    IN  Rat(100 * Ranked(d, lo) + fr * (Ranked(d, hi) - Ranked(d, lo)), 100)

\* C23 (Sample summary): record_sample appends exactly one Sample row; its
\* new_rows is the size of the batch; mean_ms, p50_ms and p95_ms are all null
\* when the batch has no known duration (also when it has rows), and
\* otherwise are the mean and the 50th and 95th percentile (linear
\* interpolation) of the known durations: 40, 30 and 88 for
\* [10, 20, 30, 40, 100].
C23_SampleSummary ==
    LET t == TRACK_TABLES[1]
        d == KnownOf(batch)
    IN  /\ pc \notin {"count", "except"} => Len(samples[t]) = 1
        /\ pc = "refit" =>
              LET s == samples[t][1]
              IN  /\ s.new_rows = Len(batch)
                  /\ d = <<>> => IsNone(s.mean_ms) /\ IsNone(s.p50_ms) /\ IsNone(s.p95_ms)
                  /\ d # <<>> =>
                        /\ s.mean_ms = Some(Rat(SumSeq(d), Len(d)))
                        /\ s.p50_ms = Some(Percentile(d, 50))
                        /\ s.p95_ms = Some(Percentile(d, 95))
                  /\ d = <<10, 20, 30, 40, 100>> =>
                        /\ s.mean_ms = Some(<<40, 1>>)
                        /\ s.p50_ms = Some(<<30, 1>>)
                        /\ s.p95_ms = Some(<<88, 1>>)

\* C23 witness: the batch with durations 10, 20, 30, 40, 100 was recorded,
\* with mean 40, p50 30 and p95 88.
C23_Witness ==
    /\ pc = "refit" /\ KnownOf(batch) = <<10, 20, 30, 40, 100>>
    /\ samples[TRACK_TABLES[1]] # <<>>
    /\ samples[TRACK_TABLES[1]][1].p95_ms = Some(<<88, 1>>)
    /\ samples[TRACK_TABLES[1]][1].mean_ms = Some(<<40, 1>>)

\* C24 (tick pacing): the sleep at the end of a tick is the interval minus
\* the tick's processing time, never negative, so two consecutive ticks
\* start one interval apart whenever the processing of the first took less
\* than the interval (and the second starts right after the processing
\* otherwise).
C24_TickPacing ==
    \A k \in 1..(Len(started) - 1) :
        /\ started[k + 1] >= started[k] + took[k]
        /\ took[k] < INTERVAL => started[k + 1] - started[k] = INTERVAL
        /\ took[k] >= INTERVAL => started[k + 1] = started[k] + took[k]

\* s is an initial part of r: r is s with rows appended
IsPrefix(s, r) == Len(s) <= Len(r) /\ SubSeq(r, 1, Len(s)) = s

\* C25 (append-only stores): every step of the sampler, the fitter and the
\* exporter leaves the rows of samples, fits and new_rows of every table in
\* place and at most appends rows after them; the archived known durations
\* of a table keep their arrival index.
C25_AppendOnly ==
    [][\A t \in Tables :
          /\ IsPrefix(samples[t], samples'[t])
          /\ IsPrefix(fits[t], fits'[t])
          /\ IsPrefix(new_rows[t], new_rows'[t])
          /\ IsPrefix(KnownOf(new_rows[t]), KnownOf(new_rows'[t]))]_vars

\* C25 witness: a table has Sample rows of several polls, archived durations
\* of two polls and a fit over them.
C25_Witness ==
    \E t \in Tables :
        /\ Len(samples[t]) >= 3
        /\ Len(KnownOf(new_rows[t])) >= 2
        /\ fits[t] # <<>>
        /\ samples[t][1].new_rows > 0 /\ samples[t][2].new_rows > 0

\* C26 (ownership): the step that runs compute_and_store_fits for a table
\* leaves watermarks, samples and new_rows (and the upstream) as they are
\* and at most appends rows to the fits of that table, rows over no more
\* points than the table's archived known durations; the export step
\* changes no table of the local store; so the watermarks change in the
\* scan step of the Sampler loop only.
C26_Ownership ==
    [][/\ pc = "refit" =>
             /\ UNCHANGED <<watermarks, samples, new_rows, upstream>>
             /\ \A t \in Tables : IsPrefix(fits[t], fits'[t])
             /\ \A t \in Tables \ {T} : fits'[t] = fits[t]
             /\ \A k \in (Len(fits[T]) + 1)..Len(fits'[T]) :
                   fits'[T][k].n <= Len(KnownOf(new_rows[T]))
       /\ pc = "export" => UNCHANGED <<watermarks, samples, new_rows, fits>>
       /\ watermarks' # watermarks => pc = "scan"]_vars

\* C26 witness: fits have been appended for a table that has a watermark,
\* Sample rows and archived rows, and an export has run since.
C26_Witness ==
    /\ exports >= 1 /\ pc = "sleep"
    /\ \E t \in Tables :
          /\ fits[t] # <<>> /\ ~IsNone(watermarks[t])
          /\ samples[t] # <<>> /\ new_rows[t] # <<>>

\* sums of squares and products about the means, scaled by the number of points
SumSq(x, y) ==
    Len(x) * SumSeq([i \in 1..Len(x) |-> x[i] * y[i]]) - SumSeq(x) * SumSeq(y)
\* the points an exponential fit over the first m positive durations of a
\* table is made of: their indexes in the series and their logarithms
PositiveAt(t, m) ==
    SubSeq(SelectSeq([i \in 1..Len(Known(t)) |-> i], LAMBDA i : Known(t)[i] > 0), 1, m)
LogAt(t, m) == [j \in 1..m |-> LogY(Known(t)[PositiveAt(t, m)[j]])]
\* what r2 has to be for the least-squares line through (x[i], y[i])
ExpectedR2(x, y, r2) ==
    /\ SumSq(y, y) = 0 => r2 = <<0, 1>>
    /\ SumSq(y, y) > 0 =>
          /\ r2 = Rat(SumSq(x, y) * SumSq(x, y), SumSq(x, x) * SumSq(y, y))
          /\ r2[1] >= 0 /\ r2[1] <= r2[2]

\* C27 (R2 on a constant series): every stored fit row has a defined r2;
\* it is exactly 0 when the total sum of squares of the fitted series is 0
\* (a constant series), and otherwise 1 - SS_res/SS_tot of the
\* least-squares line, which is the squared correlation of the points; the
\* linear fit is over the durations and the exponential fit over the
\* logarithms of the positive durations.
C27_RSquared ==
    \A t \in Tables : \A k \in 1..Len(fits[t]) :
        LET r == fits[t][k]
        IN  /\ r.kind = "linear" =>
                  ExpectedR2([i \in 1..r.n |-> i], SubSeq(Known(t), 1, r.n), r.r2)
            /\ r.kind = "exponential" =>
                  ExpectedR2(PositiveAt(t, r.n), LogAt(t, r.n), r.r2)

\* C27 witness: a table has an exponential fit with r2 = 0 over a constant
\* series and a later refit over a series that is not constant, whose
\* linear fit has an r2 strictly between 0 and 1 and whose exponential fit
\* has another r2.
C27_Witness ==
    \E t \in Tables : \E i, j, k \in 1..Len(fits[t]) :
        /\ fits[t][i].kind = "exponential" /\ fits[t][i].r2 = <<0, 1>>
        /\ i < j /\ k = j + 1
        /\ fits[t][j].kind = "linear" /\ fits[t][k].kind = "exponential"
        /\ fits[t][j].r2[1] > 0 /\ fits[t][j].r2[1] < fits[t][j].r2[2]
        /\ fits[t][j].r2 # fits[t][k].r2

\* C28 (export cadence and isolation): in the sampler with the export, with
\* frequency N > 0 the ticks at whose end an export has run are exactly the
\* ticks done whose ordinal is a multiple of N, and with N <= 0 there are
\* none; in an export run the head of every table whose dump did not fail
\* and the report, if writing it did not fail, are written whatever else
\* failed; and after the export step, failed or not, the process is in its
\* sleep, after which the next tick starts.
C28_ExportCadence ==
    variant = "mongo" =>
        /\ exported.at = {k \in 1..loops : every > 0 /\ k % every = 0}
        /\ every <= 0 => exported.at = {} /\ exports = 0
        /\ exports = Cardinality(exported.at)
        /\ exported.at # {} =>
              /\ \A st \in Tables \cup {"report"} :
                    st \notin exported.failed => st \in exported.written
              /\ exported.written \cap exported.failed = {}
        /\ pc \in {"scan", "export", "sleep"}
        /\ loops = (IF pc = "sleep" THEN ticks + 1 ELSE ticks)
        /\ (pc = "sleep" /\ ticks < MaxTicks) => ENABLED Pause

\* C28 witness: with frequency 2 the export at the end of the second tick
\* failed on the head of the first table and wrote the head of the second
\* table and the report, no export ran at the end of the first tick, and
\* the third tick has started.
C28_Witness ==
    /\ variant = "mongo" /\ every = 2
    /\ exported.at = {2} /\ exports = 1
    /\ TRACK_TABLES[1] \in exported.failed
    /\ {TRACK_TABLES[2], "report"} \subseteq exported.written
    /\ pc = "scan" /\ ticks = 2 /\ Len(started) = 3

\* the rows the Sample rows of a table account for
Sampled(t) == SumSeq([k \in 1..Len(samples[t]) |-> samples[t][k].new_rows])

C30_FitPairing ==
    [][\A t \in Tables :
          fits'[t] # fits[t] =>
              LET added == SubSeq(fits'[t], Len(fits[t]) + 1, Len(fits'[t]))
                  y     == Known(t)
              IN  /\ IsPrefix(fits[t], fits'[t])
                  /\ new_rows'[t] = new_rows[t]
                  /\ Len(added) \in {1, 2}
                  /\ added[1].kind = "linear" /\ added[1].n = Len(y)
                  /\ Len(added) = 2 <=> Len(Positive(y)) >= 2
                  /\ Len(added) = 2 =>
                        /\ added[2].kind = "exponential"
                        /\ added[2].n = Len(Positive(y))
                        /\ added[2].n <= added[1].n]_vars

\* C30 witness: the last refit of a table with three archived durations, two
\* of them positive, appended a linear fit with n = 3 and an exponential
\* fit with n = 2, after an earlier refit that appended a linear fit only.
C30_Witness ==
    \E t \in Tables :
        /\ Len(Known(t)) = 3 /\ Len(Positive(Known(t))) = 2
        /\ Len(fits[t]) = 3
        /\ fits[t][1].kind = "linear" /\ fits[t][1].n = 2
        /\ fits[t][2].kind = "linear" /\ fits[t][2].n = 3
        /\ fits[t][3].kind = "exponential" /\ fits[t][3].n = 2

\* the number of copies of a status update in a mirror
Copies(m, id) == Cardinality({k \in 1..Len(m) : m[k] = id})
\* a last-seen value that is not lower than it was
NotLower(a, b) == IsNone(a) \/ (~IsNone(b) /\ Get(b) >= Get(a))

\* C31 (status mirror): after every step of the polls and insertions, every
\* status update that was in the source collection at the last poll that
\* read it has exactly one copy in the mirror, no status update has more
\* than one copy, and last_status_ts and last_status_id are not lower than
\* before the step.
C31_StatusMirror ==
    [][/\ \A id \in 1..statusdb'.seen : Copies(statusdb'.mirror, id) = 1
       /\ \A id \in 1..Len(statusdb'.updates) : Copies(statusdb'.mirror, id) <= 1
       /\ NotLower(state.last_status_ts, state'.last_status_ts)
       /\ NotLower(state.last_status_id, state'.last_status_id)]_vars

====
